---- MODULE Spec2Model ----
(***************************************************************************)
(* A model of bandwidth.py: the sampling loop (monitor_bandwidth), the     *)
(* periodic save task, the startup load and the two query endpoints, with  *)
(* the shared state they exchange under GLOBAL_LOCK.                       *)
(*                                                                         *)
(* Throughput samples are Python floats in the program.  Here a sample is  *)
(* held exactly, as an integer multiple of 8 / (1_000_000 * TimeLcm) Mbps, *)
(* so that the division by time_delta is exact; floating-point rounding is *)
(* not modelled.                                                           *)
(***************************************************************************)
EXTENDS Integers, Sequences, FiniteSets, TLC

\* ------------------------------------------------------------- bounds ----
MAX_SAMPLES == 2      \* (12 * 60 * 60) // SAMPLE_INTERVAL_SECONDS, scaled down
NumMonths == 2        \* calendar months the clock can show: 1..NumMonths
MaxTime == 3          \* time.time() returns a value in 0..MaxTime
MaxCounter == 1       \* a cumulative byte counter reads 0..MaxCounter
SamplingTicks == 3    \* wake-ups explored when the sampling loop runs alone
ServingTicks == 1     \* wake-ups explored when every task and thread runs
MaxRestarts == 1      \* process restarts that are explored
NumReaders == 1       \* concurrent request-handling threads

Months == 1..NumMonths
Times == 0..MaxTime
CounterValues == 0..MaxCounter
Readers == 1..NumReaders
NoMonth == 0          \* dict.get("month") of a dict without that key: None

\* ---------------------------------------------------------- arithmetic ---
RECURSIVE Gcd(_, _)
Gcd(a, b) == IF b = 0 THEN a ELSE Gcd(b, a % b)

RECURSIVE LcmUpTo(_)
LcmUpTo(n) == IF n <= 1 THEN 1 ELSE (LcmUpTo(n - 1) * n) \div Gcd(LcmUpTo(n - 1), n)

\* every positive time_delta divides TimeLcm
TimeLcm == LcmUpTo(MaxTime)

RECURSIVE SeqSum(_)
SeqSum(s) == IF s = <<>> THEN 0 ELSE Head(s) + SeqSum(Tail(s))

\* (bytes_delta * 8) / 1_000_000 / time_delta, in units of
\* 8 / (1_000_000 * TimeLcm) Mbps; defined for time_delta > 0
Speed(bytes_delta, time_delta) == (bytes_delta * TimeLcm) \div time_delta

\* ------------------------------------------------------------- dicts -----
\* A MonthlyState dict: the keys it has, and the value under each key
\* (the value fields of absent keys are kept at NoMonth / 0).
FreshState(month) ==
    [keys |-> {"month", "total_bytes_sent", "total_bytes_recv"},
     month |-> month, total_bytes_sent |-> 0, total_bytes_recv |-> 0]

\* monthly_traffic_state = {} at import time
EmptyDict ==
    [keys |-> {}, month |-> NoMonth, total_bytes_sent |-> 0, total_bytes_recv |-> 0]

\* d.get("month")
GetMonth(d) == IF "month" \in d.keys THEN d.month ELSE NoMonth

\* d.get("total_bytes_sent", 0), d.get("total_bytes_recv", 0)
GetSent(d) == IF "total_bytes_sent" \in d.keys THEN d.total_bytes_sent ELSE 0
GetRecv(d) == IF "total_bytes_recv" \in d.keys THEN d.total_bytes_recv ELSE 0

\* ---------------------------------------------------- persistence file ---
DictKeys == <<"month", "total_bytes_sent", "total_bytes_recv">>

ValueOfSwapped(d, k) ==
    IF k = "month" THEN d.month
    ELSE IF k = "total_bytes_sent" THEN d.total_bytes_recv
    ELSE d.total_bytes_sent

\* the value a dict holds under key k
ValueOf(d, k) ==
    IF k = "month" THEN d.month
    ELSE IF k = "total_bytes_sent" THEN d.total_bytes_sent
    ELSE d.total_bytes_recv

\* json.dump(d, f, indent=4): the members of the object, in the dict's order,
\* each a <<key, value>> pair
RECURSIVE DumpFrom(_, _)
DumpFrom(d, i) ==
    IF i > Len(DictKeys) THEN <<>>
    ELSE IF DictKeys[i] \in d.keys
         THEN <<(<<DictKeys[i], ValueOf(d, DictKeys[i])>>)>> \o DumpFrom(d, i + 1)
         ELSE DumpFrom(d, i + 1)

JsonDump(d) == DumpFrom(d, 1)

\* the value of the member named k in the text, or dflt when there is none
RECURSIVE Member(_, _, _)
Member(text, k, dflt) ==
    IF text = <<>> THEN dflt
    ELSE IF Head(text)[1] = k THEN Head(text)[2]
    ELSE Member(Tail(text), k, dflt)

\* json.load(f) of the text of an object: the dict with the members' keys
JsonLoad(text) ==
    [keys |-> {text[i][1] : i \in DOMAIN text},
     month |-> Member(text, "month", NoMonth),
     total_bytes_sent |-> Member(text, "total_bytes_sent", 0),
     total_bytes_recv |-> Member(text, "total_bytes_recv", 0)]

\* PERSISTENCE_FILE is absent, holds text that is not JSON (as after a write
\* that was cut short), holds JSON that is not an object, or holds the text
\* of a JSON object.
FileAbsent == [kind |-> "absent", text |-> <<>>]
FileNotJson == [kind |-> "not_json", text |-> <<>>]
FileNotObject == [kind |-> "not_object", text |-> <<>>]
FileObject(text) == [kind |-> "object", text |-> text]

\* objects a file can hold when the process first starts: a complete record
\* of month 1 (the clock decides whether that is the current month), and
\* objects that lack some of the keys
InitialObjects ==
    {[keys |-> k,
      month |-> IF "month" \in k THEN 1 ELSE NoMonth,
      total_bytes_sent |-> IF "total_bytes_sent" \in k THEN 1 ELSE 0,
      total_bytes_recv |-> IF "total_bytes_recv" \in k THEN 2 ELSE 0] :
        k \in {{"month", "total_bytes_sent", "total_bytes_recv"},
                {"month", "total_bytes_sent"}, {"month", "total_bytes_recv"},
                {"month"}, {"total_bytes_sent", "total_bytes_recv"}}}

InitialFiles ==
    {FileAbsent, FileNotJson, FileNotObject}
        \cup {FileObject(JsonDump(d)) : d \in InitialObjects}

LoadIgnoresMonth(f, month_now, io_error, before) ==
    IF f.kind = "absent"
    THEN [outcome |-> "fresh", state |-> FreshState(month_now)]
    ELSE IF io_error \/ f.kind = "not_json"
    THEN [outcome |-> "read_error", state |-> FreshState(month_now)]
    ELSE IF f.kind = "not_object"
    THEN [outcome |-> "raised", state |-> before]
    ELSE [outcome |-> "loaded", state |-> JsonLoad(f.text)]

\* load_monthly_traffic: the dict it leaves in monthly_traffic_state and how
\* it ended: "loaded" (line 105), "fresh" (line 114), "read_error" (the
\* except clause, then line 114) or "raised" (AttributeError from data.get on
\* JSON that is not an object, which the except clause does not catch)
LoadMonthlyTraffic(f, month_now, io_error, before) ==
    IF f.kind = "absent"
    THEN [outcome |-> "fresh", state |-> FreshState(month_now)]
    ELSE IF io_error \/ f.kind = "not_json"
    THEN [outcome |-> "read_error", state |-> FreshState(month_now)]
    ELSE IF f.kind = "not_object"
    THEN [outcome |-> "raised", state |-> before]
    ELSE IF GetMonth(JsonLoad(f.text)) = month_now
    THEN [outcome |-> "loaded", state |-> JsonLoad(f.text)]
    ELSE [outcome |-> "fresh", state |-> FreshState(month_now)]

\* ------------------------------------------------------------- state -----
VARIABLES
    sent_samples, recv_samples,             \* the two deques
    running_total_sent, running_total_recv,
    monthly_traffic_state,
    GLOBAL_LOCK,                            \* "free" or the holder
    file,                                   \* content of PERSISTENCE_FILE
    app_pc,                                 \* "boot", "serving", "failed"
    loop_task,                              \* task the event loop is running
    mon_pc,                                 \* position of monitor_bandwidth
    last_bytes_sent, last_bytes_recv, last_check_time,
    current_time, net_io, current_month,    \* locals of the current tick
    save_pc, state_to_save,                 \* save_monthly_traffic_periodically
    reader_pc, reply,                       \* request threads and their results
    load_month, load_outcome,               \* load_monthly_traffic: its month, its end
    ticks_left, restarts_left,              \* exploration budgets
    tick,                                   \* history: the current or last tick
    recorded_sent, recorded_recv,           \* history: every sample appended
    accumulated,                            \* history: deltas added per direction
    persisted                               \* history: the last record a save wrote

sharedVars ==
    <<sent_samples, recv_samples, running_total_sent, running_total_recv,
      monthly_traffic_state>>

baselineVars == <<last_bytes_sent, last_bytes_recv, last_check_time>>

tickLocals == <<current_time, net_io, current_month>>

historyVars == <<tick, recorded_sent, recorded_recv, accumulated>>

monitorVars == <<mon_pc, baselineVars, tickLocals, ticks_left, historyVars>>

saveVars == <<save_pc, state_to_save>>

readerVars == <<reader_pc, reply>>

loadVars == <<load_month, load_outcome>>

\* what only the startup, a restart and the save's write change
restVars == <<loadVars, restarts_left, persisted>>

vars ==
    <<sharedVars, GLOBAL_LOCK, file, app_pc, loop_task, monitorVars, saveVars,
      readerVars, restVars>>

\* the shared state and the baseline, as one value
Snapshot ==
    [sent_samples |-> sent_samples, recv_samples |-> recv_samples,
     running_total_sent |-> running_total_sent,
     running_total_recv |-> running_total_recv,
     monthly_traffic_state |-> monthly_traffic_state,
     last_bytes_sent |-> last_bytes_sent, last_bytes_recv |-> last_bytes_recv,
     last_check_time |-> last_check_time]

NoTick == [outcome |-> "none", before |-> <<>>]

NoReply == [kind |-> "none"]

\* no save of this program has written the file as it stands
NothingPersisted == [valid |-> FALSE, state |-> EmptyDict]

\* module-level state right after import, before startup_event has run
ImportState ==
    /\ sent_samples = <<>>
    /\ recv_samples = <<>>
    /\ running_total_sent = 0
    /\ running_total_recv = 0
    /\ monthly_traffic_state = EmptyDict
    /\ GLOBAL_LOCK = "free"
    /\ app_pc = "boot"
    /\ loop_task = "none"
    /\ mon_pc = "unborn"
    /\ last_bytes_sent = 0
    /\ last_bytes_recv = 0
    /\ last_check_time = 0
    /\ current_time = 0
    /\ net_io = [bytes_sent |-> 0, bytes_recv |-> 0]
    /\ current_month = NoMonth
    /\ save_pc = "unborn"
    /\ state_to_save = EmptyDict
    /\ reader_pc = [r \in Readers |-> "idle"]
    /\ reply = [r \in Readers |-> NoReply]
    /\ load_month = NoMonth
    /\ load_outcome = "none"
    /\ tick = NoTick
    /\ recorded_sent = <<>>
    /\ recorded_recv = <<>>
    /\ accumulated = [sent |-> 0, recv |-> 0]

\* every task and thread of the process, over process restarts
Init ==
    /\ ImportState
    /\ file \in InitialFiles
    /\ persisted = NothingPersisted
    /\ ticks_left = ServingTicks
    /\ restarts_left = MaxRestarts

\* one process lifetime, followed over more ticks
InitSampling ==
    /\ ImportState
    /\ file \in InitialFiles
    /\ persisted = NothingPersisted
    /\ ticks_left = SamplingTicks
    /\ restarts_left = 0

\* --------------------------------------------------------- startup -------
\* startup_event: load_monthly_traffic, then create the two tasks; when the
\* load raises, startup fails and no task is created
StartupEvent ==
    /\ app_pc = "boot"
    /\ \E m \in Months, io_error \in BOOLEAN :
        LET res == LoadMonthlyTraffic(file, m, io_error, monthly_traffic_state) IN
        /\ load_month' = m
        /\ load_outcome' = res.outcome
        /\ monthly_traffic_state' = res.state
        /\ IF res.outcome = "raised"
           THEN /\ app_pc' = "failed"
                /\ UNCHANGED <<mon_pc, save_pc>>
           ELSE /\ app_pc' = "serving"
                /\ mon_pc' = "start"
                /\ save_pc' = "sleep"
    /\ UNCHANGED <<sent_samples, recv_samples, running_total_sent, running_total_recv,
                   GLOBAL_LOCK, file, loop_task, baselineVars, tickLocals, ticks_left,
                   historyVars, state_to_save, readerVars, restarts_left, persisted>>

\* the process is stopped and started again: memory is back to its import-time
\* state, the file keeps whatever it held at that moment
Restart ==
    /\ app_pc # "boot"
    /\ restarts_left > 0
    /\ restarts_left' = restarts_left - 1
    /\ sent_samples' = <<>>
    /\ recv_samples' = <<>>
    /\ running_total_sent' = 0
    /\ running_total_recv' = 0
    /\ monthly_traffic_state' = EmptyDict
    /\ GLOBAL_LOCK' = "free"
    /\ app_pc' = "boot"
    /\ loop_task' = "none"
    /\ mon_pc' = "unborn"
    /\ last_bytes_sent' = 0
    /\ last_bytes_recv' = 0
    /\ last_check_time' = 0
    /\ current_time' = 0
    /\ net_io' = [bytes_sent |-> 0, bytes_recv |-> 0]
    /\ current_month' = NoMonth
    /\ save_pc' = "unborn"
    /\ state_to_save' = EmptyDict
    /\ reader_pc' = [r \in Readers |-> "idle"]
    /\ reply' = [r \in Readers |-> NoReply]
    /\ load_month' = NoMonth
    /\ load_outcome' = "none"
    /\ tick' = NoTick
    /\ recorded_sent' = <<>>
    /\ recorded_recv' = <<>>
    /\ accumulated' = [sent |-> 0, recv |-> 0]
    /\ UNCHANGED <<file, ticks_left, persisted>>

\* ------------------------------------------------------ sampling loop ----
time_delta == current_time - last_check_time
bytes_sent_delta == net_io.bytes_sent - last_bytes_sent
bytes_recv_delta == net_io.bytes_recv - last_bytes_recv
speed_sent_mbps == Speed(bytes_sent_delta, time_delta)
speed_recv_mbps == Speed(bytes_recv_delta, time_delta)

\* threading.Lock: an acquire goes through only while nobody holds the lock
LockAvailable == GLOBAL_LOCK = "free"

\* the initial read of the counters succeeds; last_check_time = time.time():
\* the clock is counted from this reading
MonitorBaseline ==
    /\ mon_pc = "start"
    /\ loop_task = "none"
    /\ \E s \in CounterValues, r \in CounterValues :
        /\ last_bytes_sent' = s
        /\ last_bytes_recv' = r
        /\ last_check_time' = 0
    /\ mon_pc' = "sleep"
    /\ UNCHANGED <<sharedVars, GLOBAL_LOCK, file, app_pc, loop_task, tickLocals,
                   ticks_left, historyVars, saveVars, readerVars, restVars>>

\* the initial read of the counters raises: the task returns
MonitorBaselineFails ==
    /\ mon_pc = "start"
    /\ loop_task = "none"
    /\ mon_pc' = "stopped"
    /\ UNCHANGED <<sharedVars, GLOBAL_LOCK, file, app_pc, loop_task, baselineVars,
                   tickLocals, ticks_left, historyVars, saveVars, readerVars, restVars>>

\* lines 187-189
AdvanceBaseline ==
    /\ last_bytes_sent' = net_io'.bytes_sent
    /\ last_bytes_recv' = net_io'.bytes_recv
    /\ last_check_time' = current_time'

MonitorWakeWhenStopped ==
    /\ mon_pc \in {"sleep", "stopped"}
    /\ loop_task = "none"
    /\ ticks_left > 0
    /\ ticks_left' = ticks_left - 1
    /\ \E t \in Times : current_time' = t
    /\ loop_task' = "monitor"
    /\ mon_pc' = "read"
    /\ tick' = [outcome |-> "pending", before |-> Snapshot]
    /\ UNCHANGED <<sharedVars, GLOBAL_LOCK, file, app_pc, baselineVars, net_io,
                   current_month, recorded_sent, recorded_recv, accumulated,
                   saveVars, readerVars, restVars>>

\* the sleep ends; time.time() is read
MonitorWake ==
    /\ mon_pc = "sleep"
    /\ loop_task = "none"
    /\ ticks_left > 0
    /\ ticks_left' = ticks_left - 1
    /\ \E t \in Times : current_time' = t
    /\ loop_task' = "monitor"
    /\ mon_pc' = "read"
    /\ tick' = [outcome |-> "pending", before |-> Snapshot]
    /\ UNCHANGED <<sharedVars, GLOBAL_LOCK, file, app_pc, baselineVars, net_io,
                   current_month, recorded_sent, recorded_recv, accumulated,
                   saveVars, readerVars, restVars>>

MonitorReadFailsAdvancesClock ==
    /\ mon_pc = "read"
    /\ mon_pc' = "sleep"
    /\ loop_task' = "none"
    /\ tick' = [tick EXCEPT !.outcome = "read_failed"]
    /\ last_check_time' = current_time
    /\ UNCHANGED <<sharedVars, GLOBAL_LOCK, file, app_pc, last_bytes_sent,
                   last_bytes_recv, tickLocals, ticks_left, recorded_sent,
                   recorded_recv, accumulated, saveVars, readerVars, restVars>>

\* the read of the counters raises: logged, nothing updated
MonitorReadFails ==
    /\ mon_pc = "read"
    /\ mon_pc' = "sleep"
    /\ loop_task' = "none"
    /\ tick' = [tick EXCEPT !.outcome = "read_failed"]
    /\ UNCHANGED <<sharedVars, GLOBAL_LOCK, file, app_pc, baselineVars, tickLocals,
                   ticks_left, recorded_sent, recorded_recv, accumulated, saveVars,
                   readerVars, restVars>>

MonitorReadKeepsBaseline ==
    /\ mon_pc = "read"
    /\ \E s \in CounterValues, r \in CounterValues :
        net_io' = [bytes_sent |-> s, bytes_recv |-> r]
    /\ UNCHANGED <<current_time, current_month, baselineVars>>
    /\ IF time_delta > 0
       THEN /\ mon_pc' = "acquire"
            /\ UNCHANGED <<loop_task, tick>>
       ELSE /\ mon_pc' = "sleep"
            /\ loop_task' = "none"
            /\ tick' = [tick EXCEPT !.outcome = "clock_anomaly"]
    /\ UNCHANGED <<sharedVars, GLOBAL_LOCK, file, app_pc, ticks_left, recorded_sent,
                   recorded_recv, accumulated, saveVars, readerVars, restVars>>

\* the read succeeds; with time_delta <= 0 only the baseline advances
MonitorRead ==
    /\ mon_pc = "read"
    /\ \E s \in CounterValues, r \in CounterValues :
        net_io' = [bytes_sent |-> s, bytes_recv |-> r]
    /\ UNCHANGED <<current_time, current_month>>
    /\ IF time_delta > 0
       THEN /\ mon_pc' = "acquire"
            /\ UNCHANGED <<baselineVars, loop_task, tick>>
       ELSE /\ AdvanceBaseline
            /\ mon_pc' = "sleep"
            /\ loop_task' = "none"
            /\ tick' = [tick EXCEPT !.outcome = "clock_anomaly"]
    /\ UNCHANGED <<sharedVars, GLOBAL_LOCK, file, app_pc, ticks_left, recorded_sent,
                   recorded_recv, accumulated, saveVars, readerVars, restVars>>

\* with GLOBAL_LOCK: (line 163)
MonitorAcquire ==
    /\ mon_pc = "acquire"
    /\ LockAvailable
    /\ GLOBAL_LOCK' = "monitor"
    /\ mon_pc' = "append_sent"
    /\ UNCHANGED <<sharedVars, file, app_pc, loop_task, baselineVars, tickLocals,
                   ticks_left, historyVars, saveVars, readerVars, restVars>>

OverFullByTwo(samples) == Len(samples) > MAX_SAMPLES + 1

\* len(samples) > MAX_SAMPLES (lines 166, 171)
OverFull(samples) == Len(samples) > MAX_SAMPLES

PoppedRight(samples) == SubSeq(samples, 1, Len(samples) - 1)

\* the deque after popleft()
PoppedLeft(samples) == Tail(samples)

TotalNotReduced(total, samples) == total

\* running_total -= samples.popleft(): the new running total
TotalAfterPop(total, samples) == total - Head(samples)

\* sent_samples.append(speed_sent_mbps)
MonitorAppendSent ==
    /\ mon_pc = "append_sent"
    /\ sent_samples' = Append(sent_samples, speed_sent_mbps)
    /\ recorded_sent' = Append(recorded_sent, speed_sent_mbps)
    /\ mon_pc' = "add_sent"
    /\ UNCHANGED <<recv_samples, running_total_sent, running_total_recv,
                   monthly_traffic_state, GLOBAL_LOCK, file, app_pc, loop_task,
                   baselineVars, tickLocals, ticks_left, tick, recorded_recv, accumulated,
                   saveVars, readerVars, restVars>>

\* running_total_sent += speed_sent_mbps
MonitorAddSent ==
    /\ mon_pc = "add_sent"
    /\ running_total_sent' = running_total_sent + speed_sent_mbps
    /\ mon_pc' = "evict_sent"
    /\ UNCHANGED <<sent_samples, recv_samples, running_total_recv,
                   monthly_traffic_state, GLOBAL_LOCK, file, app_pc, loop_task,
                   baselineVars, tickLocals, ticks_left, historyVars, saveVars, readerVars,
                   restVars>>

\* if len(sent_samples) > MAX_SAMPLES: running_total_sent -= sent_samples.popleft()
MonitorEvictSent ==
    /\ mon_pc = "evict_sent"
    /\ IF OverFull(sent_samples)
       THEN /\ running_total_sent' = TotalAfterPop(running_total_sent, sent_samples)
            /\ sent_samples' = PoppedLeft(sent_samples)
       ELSE UNCHANGED <<sent_samples, running_total_sent>>
    /\ mon_pc' = "append_recv"
    /\ UNCHANGED <<recv_samples, running_total_recv, monthly_traffic_state,
                   GLOBAL_LOCK, file, app_pc, loop_task, baselineVars, tickLocals,
                   ticks_left, historyVars, saveVars, readerVars, restVars>>

\* recv_samples.append(speed_recv_mbps)
MonitorAppendRecv ==
    /\ mon_pc = "append_recv"
    /\ recv_samples' = Append(recv_samples, speed_recv_mbps)
    /\ recorded_recv' = Append(recorded_recv, speed_recv_mbps)
    /\ mon_pc' = "add_recv"
    /\ UNCHANGED <<sent_samples, running_total_sent, running_total_recv,
                   monthly_traffic_state, GLOBAL_LOCK, file, app_pc, loop_task,
                   baselineVars, tickLocals, ticks_left, tick, recorded_sent, accumulated,
                   saveVars, readerVars, restVars>>

\* running_total_recv += speed_recv_mbps
MonitorAddRecv ==
    /\ mon_pc = "add_recv"
    /\ running_total_recv' = running_total_recv + speed_recv_mbps
    /\ mon_pc' = "evict_recv"
    /\ UNCHANGED <<sent_samples, recv_samples, running_total_sent,
                   monthly_traffic_state, GLOBAL_LOCK, file, app_pc, loop_task,
                   baselineVars, tickLocals, ticks_left, historyVars, saveVars, readerVars,
                   restVars>>

MonitorEvictRecvLate ==
    /\ mon_pc = "evict_recv"
    /\ IF OverFullByTwo(recv_samples)
       THEN /\ running_total_recv' = TotalAfterPop(running_total_recv, recv_samples)
            /\ recv_samples' = PoppedLeft(recv_samples)
       ELSE UNCHANGED <<recv_samples, running_total_recv>>
    /\ mon_pc' = "month"
    /\ UNCHANGED <<sent_samples, running_total_sent, monthly_traffic_state,
                   GLOBAL_LOCK, file, app_pc, loop_task, baselineVars, tickLocals,
                   ticks_left, historyVars, saveVars, readerVars, restVars>>

\* if len(recv_samples) > MAX_SAMPLES: running_total_recv -= recv_samples.popleft()
MonitorEvictRecv ==
    /\ mon_pc = "evict_recv"
    /\ IF OverFull(recv_samples)
       THEN /\ running_total_recv' = TotalAfterPop(running_total_recv, recv_samples)
            /\ recv_samples' = PoppedLeft(recv_samples)
       ELSE UNCHANGED <<recv_samples, running_total_recv>>
    /\ mon_pc' = "month"
    /\ UNCHANGED <<sent_samples, running_total_sent, monthly_traffic_state,
                   GLOBAL_LOCK, file, app_pc, loop_task, baselineVars, tickLocals,
                   ticks_left, historyVars, saveVars, readerVars, restVars>>

RolloverKeepsTotals(state, month_now) ==
    IF GetMonth(state) # month_now
    THEN [state EXCEPT !.month = month_now, !.keys = @ \cup {"month"}]
    ELSE state

RolloverMissed(state, month_now) == state

\* lines 175-183: the state the month check leaves
RolloverCheck(state, month_now) ==
    IF GetMonth(state) # month_now THEN FreshState(month_now) ELSE state

\* current_month = datetime.now().strftime("%Y-%m"), then the month check
MonitorMonth ==
    /\ mon_pc = "month"
    /\ \E m \in Months :
        /\ current_month' = m
        /\ monthly_traffic_state' = RolloverCheck(monthly_traffic_state, m)
    /\ mon_pc' = "acc_sent"
    /\ UNCHANGED <<sent_samples, recv_samples, running_total_sent,
                   running_total_recv, GLOBAL_LOCK, file, app_pc, loop_task,
                   baselineVars, current_time, net_io, ticks_left, historyVars, saveVars,
                   readerVars, restVars>>

\* monthly_traffic_state["total_bytes_sent"] += bytes_sent_delta
AddSent(state, delta) ==
    [state EXCEPT !.total_bytes_sent = state.total_bytes_sent + delta]

\* monthly_traffic_state["total_bytes_recv"] += bytes_recv_delta
AddRecv(state, delta) ==
    [state EXCEPT !.total_bytes_recv = state.total_bytes_recv + delta]

MonitorAccumulateSent ==
    /\ mon_pc = "acc_sent"
    /\ "total_bytes_sent" \in monthly_traffic_state.keys
    /\ monthly_traffic_state' = AddSent(monthly_traffic_state, bytes_sent_delta)
    /\ accumulated' = [accumulated EXCEPT !.sent = @ + 1]
    /\ mon_pc' = "acc_recv"
    /\ UNCHANGED <<sent_samples, recv_samples, running_total_sent,
                   running_total_recv, GLOBAL_LOCK, file, app_pc, loop_task,
                   baselineVars, tickLocals, ticks_left, tick, recorded_sent,
                   recorded_recv, saveVars, readerVars, restVars>>

MonitorAccumulateRecv ==
    /\ mon_pc = "acc_recv"
    /\ "total_bytes_recv" \in monthly_traffic_state.keys
    /\ monthly_traffic_state' = AddRecv(monthly_traffic_state, bytes_recv_delta)
    /\ accumulated' = [accumulated EXCEPT !.recv = @ + 1]
    /\ mon_pc' = "release"
    /\ UNCHANGED <<sent_samples, recv_samples, running_total_sent,
                   running_total_recv, GLOBAL_LOCK, file, app_pc, loop_task,
                   baselineVars, tickLocals, ticks_left, tick, recorded_sent,
                   recorded_recv, saveVars, readerVars, restVars>>

MonitorUpdateFailsEndsTask ==
    /\ \/ mon_pc = "acc_sent" /\ "total_bytes_sent" \notin monthly_traffic_state.keys
       \/ mon_pc = "acc_recv" /\ "total_bytes_recv" \notin monthly_traffic_state.keys
    /\ GLOBAL_LOCK' = "free"
    /\ mon_pc' = "stopped"
    /\ loop_task' = "none"
    /\ tick' = [tick EXCEPT !.outcome = "update_failed"]
    /\ UNCHANGED <<sharedVars, file, app_pc, baselineVars, tickLocals, ticks_left,
                   recorded_sent, recorded_recv, accumulated, saveVars, readerVars,
                   restVars>>

MonitorUpdateFailsKeepsLock ==
    /\ \/ mon_pc = "acc_sent" /\ "total_bytes_sent" \notin monthly_traffic_state.keys
       \/ mon_pc = "acc_recv" /\ "total_bytes_recv" \notin monthly_traffic_state.keys
    /\ mon_pc' = "sleep"
    /\ loop_task' = "none"
    /\ tick' = [tick EXCEPT !.outcome = "update_failed"]
    /\ UNCHANGED <<sharedVars, GLOBAL_LOCK, file, app_pc, baselineVars, tickLocals,
                   ticks_left, recorded_sent, recorded_recv, accumulated, saveVars,
                   readerVars, restVars>>

\* the subscript raises KeyError: the with block releases the lock, the
\* except clause logs, and the loop goes back to sleep (lines 190-191)
MonitorUpdateFails ==
    /\ \/ mon_pc = "acc_sent" /\ "total_bytes_sent" \notin monthly_traffic_state.keys
       \/ mon_pc = "acc_recv" /\ "total_bytes_recv" \notin monthly_traffic_state.keys
    /\ GLOBAL_LOCK' = "free"
    /\ mon_pc' = "sleep"
    /\ loop_task' = "none"
    /\ tick' = [tick EXCEPT !.outcome = "update_failed"]
    /\ UNCHANGED <<sharedVars, file, app_pc, baselineVars, tickLocals, ticks_left,
                   recorded_sent, recorded_recv, accumulated, saveVars, readerVars,
                   restVars>>

\* the with block ends
MonitorRelease ==
    /\ mon_pc = "release"
    /\ GLOBAL_LOCK' = "free"
    /\ mon_pc' = "advance"
    /\ UNCHANGED <<sharedVars, file, app_pc, loop_task, baselineVars, tickLocals,
                   ticks_left, historyVars, saveVars, readerVars, restVars>>

\* lines 187-189, then back to the sleep
MonitorAdvance ==
    /\ mon_pc = "advance"
    /\ UNCHANGED tickLocals
    /\ AdvanceBaseline
    /\ mon_pc' = "sleep"
    /\ loop_task' = "none"
    /\ tick' = [tick EXCEPT !.outcome = "recorded"]
    /\ UNCHANGED <<sharedVars, GLOBAL_LOCK, file, app_pc, ticks_left, recorded_sent,
                   recorded_recv, accumulated, saveVars, readerVars, restVars>>

\* ---------------------------------------------------------- save task ----
\* asyncio.sleep(SAVE_INTERVAL_MINUTES * 60) ends
SaveWake ==
    /\ save_pc = "sleep"
    /\ loop_task = "none"
    /\ loop_task' = "save"
    /\ save_pc' = "acquire"
    /\ UNCHANGED <<sharedVars, GLOBAL_LOCK, file, app_pc, monitorVars, state_to_save,
                   readerVars, restVars>>

SaveAcquire ==
    /\ save_pc = "acquire"
    /\ LockAvailable
    /\ GLOBAL_LOCK' = "save"
    /\ save_pc' = "copy"
    /\ UNCHANGED <<sharedVars, file, app_pc, loop_task, monitorVars, state_to_save,
                   readerVars, restVars>>

\* state_to_save = monthly_traffic_state.copy(), and the with block ends
SaveCopy ==
    /\ save_pc = "copy"
    /\ state_to_save' = monthly_traffic_state
    /\ GLOBAL_LOCK' = "free"
    /\ save_pc' = "open"
    /\ UNCHANGED <<sharedVars, file, app_pc, loop_task, monitorVars, readerVars,
                   restVars>>

\* open(PERSISTENCE_FILE, "w") truncates the file
SaveOpen ==
    /\ save_pc = "open"
    /\ file' = FileNotJson
    /\ save_pc' = "dump"
    /\ UNCHANGED <<sharedVars, GLOBAL_LOCK, app_pc, loop_task, monitorVars,
                   state_to_save, readerVars, loadVars, restarts_left>>
    /\ persisted' = NothingPersisted

\* open raises IOError: logged, the file is as it was
SaveOpenFails ==
    /\ save_pc = "open"
    /\ save_pc' = "sleep"
    /\ loop_task' = "none"
    /\ state_to_save' = EmptyDict
    /\ UNCHANGED <<sharedVars, GLOBAL_LOCK, file, app_pc, monitorVars, readerVars,
                   restVars>>

\* json.dump writes the whole record and the file is closed
SaveDump ==
    /\ save_pc = "dump"
    /\ file' = FileObject(JsonDump(state_to_save))
    /\ save_pc' = "sleep"
    /\ loop_task' = "none"
    /\ state_to_save' = EmptyDict
    /\ UNCHANGED <<sharedVars, GLOBAL_LOCK, app_pc, monitorVars, readerVars,
                   loadVars, restarts_left>>
    /\ persisted' = [valid |-> TRUE, state |-> state_to_save]

SaveDumpFailsEndsTask ==
    /\ save_pc = "dump"
    /\ file' = FileNotJson
    /\ save_pc' = "ended"
    /\ loop_task' = "none"
    /\ state_to_save' = EmptyDict
    /\ UNCHANGED <<sharedVars, GLOBAL_LOCK, app_pc, monitorVars, readerVars,
                   loadVars, restarts_left>>
    /\ persisted' = NothingPersisted

\* the write raises IOError part-way: logged, the file is left cut short
SaveDumpFails ==
    /\ save_pc = "dump"
    /\ file' = FileNotJson
    /\ save_pc' = "sleep"
    /\ loop_task' = "none"
    /\ state_to_save' = EmptyDict
    /\ UNCHANGED <<sharedVars, GLOBAL_LOCK, app_pc, monitorVars, readerVars,
                   loadVars, restarts_left>>
    /\ persisted' = NothingPersisted

\* ------------------------------------------------------------ queries ----
\* a / b as a fraction
Ratio(a, b) == [num |-> a, den |-> b]

BandwidthStatsUnguarded(ss, ts, tr) ==
    [kind |-> "stats", avg_sent |-> Ratio(ts, Len(ss)),
     avg_recv |-> Ratio(tr, Len(ss)), current_count |-> Len(ss)]

\* lines 198-203 of get_bandwidth_stats (the response rounds the averages
\* to two decimals)
BandwidthStats(ss, ts, tr) ==
    IF Len(ss) = 0
    THEN [kind |-> "stats", avg_sent |-> Ratio(0, 1), avg_recv |-> Ratio(0, 1),
          current_count |-> 0]
    ELSE [kind |-> "stats", avg_sent |-> Ratio(ts, Len(ss)),
          avg_recv |-> Ratio(tr, Len(ss)), current_count |-> Len(ss)]

\* the raw_bytes and month of get_monthly_traffic's response
MonthlyTraffic(state) ==
    [kind |-> "monthly", month |-> GetMonth(state),
     sent |-> GetSent(state), received |-> GetRecv(state),
     total |-> GetSent(state) + GetRecv(state)]

\* a request thread enters with GLOBAL_LOCK: of one of the two endpoints
ReaderAcquire(r) ==
    /\ app_pc = "serving"
    /\ reader_pc[r] = "idle"
    /\ LockAvailable
    /\ GLOBAL_LOCK' = "reader"
    /\ \E k \in {"stats", "monthly"} : reader_pc' = [reader_pc EXCEPT ![r] = k]
    /\ UNCHANGED <<sharedVars, file, app_pc, loop_task, monitorVars, saveVars,
                   reply, restVars>>

\* get_bandwidth_stats: the body of the with block, and the release
ReaderStats(r) ==
    /\ reader_pc[r] = "stats"
    /\ reply' = [reply EXCEPT ![r] =
                    BandwidthStats(sent_samples, running_total_sent, running_total_recv)]
    /\ GLOBAL_LOCK' = "free"
    /\ reader_pc' = [reader_pc EXCEPT ![r] = "respond"]
    /\ UNCHANGED <<sharedVars, file, app_pc, loop_task, monitorVars, saveVars,
                   restVars>>

\* get_monthly_traffic: the copy under the lock, and the release
ReaderMonthly(r) ==
    /\ reader_pc[r] = "monthly"
    /\ reply' = [reply EXCEPT ![r] = MonthlyTraffic(monthly_traffic_state)]
    /\ GLOBAL_LOCK' = "free"
    /\ reader_pc' = [reader_pc EXCEPT ![r] = "respond"]
    /\ UNCHANGED <<sharedVars, file, app_pc, loop_task, monitorVars, saveVars,
                   restVars>>

\* the response is returned and the thread is free for the next request
ReaderReturn(r) ==
    /\ reader_pc[r] = "respond"
    /\ reply' = [reply EXCEPT ![r] = NoReply]
    /\ reader_pc' = [reader_pc EXCEPT ![r] = "idle"]
    /\ UNCHANGED <<sharedVars, GLOBAL_LOCK, file, app_pc, loop_task, monitorVars,
                   saveVars, restVars>>

\* ------------------------------------------------------ specification ----
MonitorStep ==
    \/ MonitorBaseline
    \/ MonitorBaselineFails
    \/ MonitorWake
    \/ MonitorReadFails
    \/ MonitorRead
    \/ MonitorAcquire
    \/ MonitorAppendSent
    \/ MonitorAddSent
    \/ MonitorEvictSent
    \/ MonitorAppendRecv
    \/ MonitorAddRecv
    \/ MonitorEvictRecv
    \/ MonitorMonth
    \/ MonitorAccumulateSent
    \/ MonitorAccumulateRecv
    \/ MonitorUpdateFails
    \/ MonitorRelease
    \/ MonitorAdvance

SaveStep ==
    \/ SaveWake
    \/ SaveAcquire
    \/ SaveCopy
    \/ SaveOpen
    \/ SaveOpenFails
    \/ SaveDump
    \/ SaveDumpFails

ReaderStep ==
    \E r \in Readers :
        \/ ReaderAcquire(r)
        \/ ReaderStats(r)
        \/ ReaderMonthly(r)
        \/ ReaderReturn(r)

Next ==
    \/ StartupEvent
    \/ Restart
    \/ MonitorStep
    \/ SaveStep
    \/ ReaderStep

Spec == Init /\ [][Next]_vars

\* the startup and the sampling loop alone
NextSampling ==
    \/ StartupEvent
    \/ MonitorStep

SpecSampling == InitSampling /\ [][NextSampling]_vars

\* the steps a task or thread takes while it holds GLOBAL_LOCK
MonitorCritical ==
    \/ MonitorAppendSent
    \/ MonitorAddSent
    \/ MonitorEvictSent
    \/ MonitorAppendRecv
    \/ MonitorAddRecv
    \/ MonitorEvictRecv
    \/ MonitorMonth
    \/ MonitorAccumulateSent
    \/ MonitorAccumulateRecv
    \/ MonitorUpdateFails
    \/ MonitorRelease

\* scheduling: a thread that holds the lock keeps running until it has
\* released it (the bodies of the with blocks do not wait for anything), and
\* a task blocked in the acquire of threading.Lock gets the lock at one of
\* the moments it is free
Fairness ==
    /\ WF_vars(MonitorCritical)
    /\ WF_vars(SaveCopy)
    /\ \A r \in Readers : WF_vars(ReaderStats(r) \/ ReaderMonthly(r))
    /\ SF_vars(MonitorAcquire)
    /\ SF_vars(SaveAcquire)

\* one process lifetime with every task and thread
InitFair ==
    /\ ImportState
    /\ file \in InitialFiles
    /\ persisted = NothingPersisted
    /\ ticks_left = ServingTicks
    /\ restarts_left = 0

NextFair ==
    \/ StartupEvent
    \/ MonitorStep
    \/ SaveStep
    \/ ReaderStep

SpecFair == InitFair /\ [][NextFair]_vars /\ Fairness

\* ------------------------------------------------------------ claims ----
\* positions of monitor_bandwidth inside its with GLOBAL_LOCK block
CriticalPcs ==
    {"append_sent", "add_sent", "evict_sent", "append_recv", "add_recv",
     "evict_recv", "month", "acc_sent", "acc_recv", "release"}

InCriticalSection == mon_pc \in CriticalPcs

\* the last n elements of s, or all of s when it has fewer
LastN(s, n) == IF Len(s) <= n THEN s ELSE SubSeq(s, Len(s) - n + 1, Len(s))

\* the byte deltas of the current or last tick, against the baseline it began with
TickSentDelta == net_io.bytes_sent - tick.before.last_bytes_sent
TickRecvDelta == net_io.bytes_recv - tick.before.last_bytes_recv

\* the tick read the counters and found time_delta > 0, and has ended
TickSampled == tick.outcome \in {"recorded", "update_failed"}

\* C1: whenever the sampling loop is outside its critical section, neither
\* window holds more than MAX_SAMPLES samples.
C1_WindowsBounded ==
    ~InCriticalSection =>
        /\ Len(sent_samples) <= MAX_SAMPLES
        /\ Len(recv_samples) <= MAX_SAMPLES

\* a full window from which a sample has been evicted
C1_Witness ==
    /\ mon_pc = "sleep"
    /\ Len(recorded_sent) > MAX_SAMPLES
    /\ Len(sent_samples) = MAX_SAMPLES
    /\ Len(recv_samples) = MAX_SAMPLES

\* C2: after each completed mutation each running total is the sum of the
\* samples its window holds, before and after evictions have started.
C2_RunningTotalsAreSums ==
    ~InCriticalSection =>
        /\ running_total_sent = SeqSum(sent_samples)
        /\ running_total_recv = SeqSum(recv_samples)

\* an eviction of a sample that was not zero, from windows that are not zero
C2_Witness ==
    /\ mon_pc = "sleep"
    /\ Len(recorded_sent) > MAX_SAMPLES
    /\ recorded_sent[1] # 0
    /\ recorded_recv[1] # 0
    /\ running_total_sent # 0
    /\ running_total_recv # 0

\* C3: a reader (a query, or the save task's copy) holding the lock sees the
\* shared state as it is between two ticks: the loop is outside its critical
\* section, each running total is the sum of its window, no window is over
\* MAX_SAMPLES, the monthly totals have received as many sent deltas as
\* received deltas, and a state reset by the last tick holds that tick's
\* deltas.
C3_ReadersSeeWholeTicks ==
    GLOBAL_LOCK \in {"reader", "save"} =>
        /\ ~InCriticalSection
        /\ running_total_sent = SeqSum(sent_samples)
        /\ running_total_recv = SeqSum(recv_samples)
        /\ Len(sent_samples) <= MAX_SAMPLES
        /\ Len(recv_samples) <= MAX_SAMPLES
        /\ accumulated.sent = accumulated.recv
        /\ (TickSampled
                /\ GetMonth(tick.before.monthly_traffic_state) # current_month) =>
            /\ GetSent(monthly_traffic_state) = TickSentDelta
            /\ GetRecv(monthly_traffic_state) = TickRecvDelta

\* C4: outside the critical section each window holds the last
\* min(k, MAX_SAMPLES) of the k samples recorded for its direction, in the
\* order they were recorded.
C4_WindowsHoldLastSamples ==
    ~InCriticalSection =>
        /\ sent_samples = LastN(recorded_sent, MAX_SAMPLES)
        /\ recv_samples = LastN(recorded_recv, MAX_SAMPLES)

\* three different samples were recorded and the oldest one was evicted
C4_Witness ==
    /\ mon_pc = "sleep"
    /\ Len(recorded_sent) = MAX_SAMPLES + 1
    /\ recorded_sent[1] # recorded_sent[2]
    /\ recorded_sent[2] # recorded_sent[3]
    /\ recorded_sent[1] # recorded_sent[3]
    /\ sent_samples = <<recorded_sent[2], recorded_sent[3]>>

\* C5: the bandwidth query answers 0.0, 0.0 and count 0 when the window is
\* empty, and otherwise each direction's running total divided by the length
\* of its window, with the window length as the count.
C5_StatsOfWindow ==
    [][\A r \in Readers :
        (reader_pc[r] = "stats" /\ reader_pc'[r] = "respond") =>
            IF Len(sent_samples) = 0
            THEN /\ reply'[r].avg_sent = Ratio(0, 1)
                 /\ reply'[r].avg_recv = Ratio(0, 1)
                 /\ reply'[r].current_count = 0
            ELSE /\ reply'[r].avg_sent.den # 0
                 /\ reply'[r].avg_recv.den # 0
                 /\ reply'[r].avg_sent.num * Len(sent_samples)
                        = running_total_sent * reply'[r].avg_sent.den
                 /\ reply'[r].avg_recv.num * Len(recv_samples)
                        = running_total_recv * reply'[r].avg_recv.den
                 /\ reply'[r].current_count = Len(sent_samples)]_vars

\* a bandwidth answer computed from a window that holds samples
C5_Witness ==
    \E r \in Readers :
        /\ reader_pc[r] = "respond"
        /\ reply[r].kind = "stats"
        /\ reply[r].current_count > 0
        /\ reply[r].avg_sent.num # 0
        /\ reply[r].avg_recv.num # 0
        /\ reply[r].avg_sent.num # reply[r].avg_recv.num

\* C6: a tick that finds a month other than MonthlyState's leaves the state
\* {observed month, that tick's sent delta, that tick's received delta}.
C6_RolloverDiscardsTotals ==
    (tick.outcome = "recorded"
        /\ GetMonth(tick.before.monthly_traffic_state) # current_month) =>
        monthly_traffic_state =
            [keys |-> {"month", "total_bytes_sent", "total_bytes_recv"},
             month |-> current_month,
             total_bytes_sent |-> TickSentDelta,
             total_bytes_recv |-> TickRecvDelta]

\* a rollover away from a month whose totals were not zero
C6_Witness ==
    /\ tick.outcome = "recorded"
    /\ GetMonth(tick.before.monthly_traffic_state) \in Months \ {current_month}
    /\ GetSent(tick.before.monthly_traffic_state) # 0
    /\ GetRecv(tick.before.monthly_traffic_state) # 0
    /\ TickSentDelta # 0
    /\ TickRecvDelta # 0

\* C7: a tick that read the counters, found time_delta > 0 and found the
\* month unchanged has added its sent delta to total_bytes_sent and its
\* received delta to total_bytes_recv, and left the month as it was.
C7_TickAddsItsDeltas ==
    (TickSampled /\ GetMonth(tick.before.monthly_traffic_state) = current_month) =>
        /\ GetMonth(monthly_traffic_state) = current_month
        /\ GetSent(monthly_traffic_state)
               = GetSent(tick.before.monthly_traffic_state) + TickSentDelta
        /\ GetRecv(monthly_traffic_state)
               = GetRecv(tick.before.monthly_traffic_state) + TickRecvDelta

\* C8: a startup that reads the record the last save wrote adopts that
\* record when its month is the current month, and otherwise starts from
\* {current month, 0, 0}.
C8_LoadAfterSave ==
    [][(app_pc = "boot" /\ app_pc' = "serving" /\ persisted.valid
            /\ load_outcome' # "read_error") =>
        monthly_traffic_state' =
            IF persisted.state.month = load_month'
            THEN persisted.state
            ELSE FreshState(load_month')]_vars

\* after a restart the process runs on the record its last save wrote, which
\* differs from what the file held before the first start
C8_Witness ==
    /\ app_pc = "serving"
    /\ restarts_left < MaxRestarts
    /\ load_outcome = "loaded"
    /\ persisted.valid
    /\ monthly_traffic_state = persisted.state
    /\ monthly_traffic_state.keys = {"month", "total_bytes_sent", "total_bytes_recv"}
    /\ monthly_traffic_state.total_bytes_sent \notin {0, 1}
    /\ monthly_traffic_state.total_bytes_recv \notin {0, 2}

\* the file holds a complete record: an object with the three members
FileHoldsRecord ==
    /\ file.kind = "object"
    /\ JsonLoad(file.text).keys = {"month", "total_bytes_sent", "total_bytes_recv"}

\* C9: a startup that finds no readable record does not fail, leaves
\* {current month, 0, 0} in MonthlyState, and starts both tasks.
C9_UnreadableRecordStartsFresh ==
    [][(app_pc = "boot" /\ app_pc' # "boot" /\ ~FileHoldsRecord) =>
        /\ app_pc' = "serving"
        /\ monthly_traffic_state' = FreshState(load_month')
        /\ mon_pc' = "start"
        /\ save_pc' = "sleep"]_vars

\* C10: a tick that read the counters and found time_delta <= 0 left the
\* windows, the running totals and MonthlyState as they were, and moved
\* last_bytes_sent, last_bytes_recv and last_check_time to what it read.
C10_ClockAnomalyAdvancesBaseline ==
    tick.outcome = "clock_anomaly" =>
        /\ sent_samples = tick.before.sent_samples
        /\ recv_samples = tick.before.recv_samples
        /\ running_total_sent = tick.before.running_total_sent
        /\ running_total_recv = tick.before.running_total_recv
        /\ monthly_traffic_state = tick.before.monthly_traffic_state
        /\ last_bytes_sent = net_io.bytes_sent
        /\ last_bytes_recv = net_io.bytes_recv
        /\ last_check_time = current_time

\* the clock went back after a sample was recorded, and the counters moved
C10_Witness ==
    /\ tick.outcome = "clock_anomaly"
    /\ Len(sent_samples) > 0
    /\ current_time < tick.before.last_check_time
    /\ net_io.bytes_sent # tick.before.last_bytes_sent
    /\ net_io.bytes_recv # tick.before.last_bytes_recv

\* C11: a tick whose read of the counters raised left the loop running (back
\* in its sleep) and left the windows, the running totals, the monthly state,
\* the last counter reading and last_check_time exactly as they were when the
\* tick began, so the next successful read is compared with the last
\* successful one.
C11_FailedReadChangesNothing ==
    tick.outcome = "read_failed" =>
        /\ mon_pc = "sleep"
        /\ Snapshot = tick.before

\* a read fails after a tick that recorded a sample and moved the baseline
C11_Witness ==
    /\ tick.outcome = "read_failed"
    /\ Len(recorded_sent) > 0
    /\ last_bytes_sent = 1
    /\ last_check_time > 0
    /\ current_time > last_check_time

\* C12: once the baseline read has failed the loop is stopped for the rest of
\* the process lifetime: every step taken from a stopped state (other than a
\* restart of the process) leaves the loop stopped, the windows empty, no
\* sample recorded, and the windows, running totals and monthly state
\* unchanged; and in every such state the save task is alive (a sleeping one
\* can wake) and an idle request thread can enter as soon as the lock is free.
C12_StoppedIsFinal ==
    [][mon_pc = "stopped" =>
          /\ app_pc = "serving"
          /\ sent_samples = <<>> /\ recv_samples = <<>>
          /\ recorded_sent = <<>> /\ recorded_recv = <<>>
          /\ save_pc \in {"sleep", "acquire", "copy", "open", "dump"}
          /\ save_pc = "sleep" => ENABLED SaveWake
          /\ \A r \in Readers :
                (reader_pc[r] = "idle" /\ GLOBAL_LOCK = "free") => ENABLED ReaderAcquire(r)
          /\ app_pc' # "boot" =>
                /\ mon_pc' = "stopped"
                /\ UNCHANGED sharedVars
                /\ UNCHANGED <<recorded_sent, recorded_recv>>]_vars

\* the loop is stopped while a save started after the stop is writing the
\* file and a request has its response
C12_Witness ==
    /\ mon_pc = "stopped"
    /\ save_pc = "dump"
    /\ \E r \in Readers : reader_pc[r] = "respond" /\ reply[r].kind = "monthly"

\* the calendar month most recently observed by the code that wrote the
\* monthly state: the month check of the latest tick that reached it, else
\* the load at startup
ObservedMonth == IF current_month = NoMonth THEN load_month ELSE current_month

\* C13: after the load at startup and after every step of the sampling loop
\* the month of the monthly state is the calendar month observed at that load
\* or by the latest month check, and every step of a running process that
\* changes a monthly total is a step of a tick's update that stores it under
\* the month that tick observed.
C13_MonthIsObservedMonth ==
    [][/\ app_pc' = "serving" =>
             /\ "month" \in monthly_traffic_state'.keys
             /\ GetMonth(monthly_traffic_state') = ObservedMonth'
       /\ (/\ app_pc = "serving" /\ app_pc' = "serving"
           /\ \/ GetSent(monthly_traffic_state') # GetSent(monthly_traffic_state)
              \/ GetRecv(monthly_traffic_state') # GetRecv(monthly_traffic_state)) =>
             /\ mon_pc \in {"month", "acc_sent", "acc_recv"}
             /\ GetMonth(monthly_traffic_state') = current_month']_vars

\* a tick in another month than the one of startup has stored bytes
C13_Witness ==
    /\ tick.outcome = "recorded"
    /\ load_outcome = "loaded"
    /\ current_month # load_month
    /\ GetMonth(monthly_traffic_state) = current_month
    /\ GetSent(monthly_traffic_state) > 0

\* who holds GLOBAL_LOCK is the task or thread inside its with block, and
\* that holder can take its next step
LockHeldInsideWithBlock ==
    /\ GLOBAL_LOCK = "monitor" <=> InCriticalSection
    /\ GLOBAL_LOCK = "monitor" => loop_task = "monitor" /\ ENABLED MonitorCritical
    /\ GLOBAL_LOCK = "save" <=> save_pc = "copy"
    /\ GLOBAL_LOCK = "save" => ENABLED SaveCopy
    /\ GLOBAL_LOCK = "reader" <=> \E r \in Readers : reader_pc[r] \in {"stats", "monthly"}
    /\ GLOBAL_LOCK = "reader" =>
          \E r \in Readers : ENABLED (ReaderStats(r) \/ ReaderMonthly(r))
    /\ Cardinality({r \in Readers : reader_pc[r] \in {"stats", "monthly"}}) <= 1
    /\ mon_pc \in {"start", "sleep", "read", "acquire", "advance", "stopped", "unborn"}
          => GLOBAL_LOCK # "monitor"

C15_OnlyTheLoopWrites ==
    [][/\ (/\ app_pc = "serving" /\ app_pc' = "serving"
           /\ sharedVars' # sharedVars) =>
             /\ GLOBAL_LOCK = "monitor"
             /\ mon_pc' # mon_pc
             /\ UNCHANGED <<saveVars, readerVars, file>>
       /\ (/\ app_pc = "serving" /\ app_pc' = "serving"
           /\ <<saveVars, readerVars, file>>' # <<saveVars, readerVars, file>>) =>
             UNCHANGED sharedVars
       /\ (save_pc \in {"open", "dump"} /\ app_pc' = "serving") =>
             save_pc' \in {"open", "dump", "sleep"}
       /\ (save_pc = "sleep" /\ loop_task = "none") => ENABLED SaveWake]_vars

\* a save of this process has failed in its write (the file it found readable
\* at startup is cut short) and the samples and the loaded totals are still
\* in memory
C15_Witness ==
    /\ load_outcome = "loaded"
    /\ restarts_left = MaxRestarts
    /\ file = FileNotJson
    /\ save_pc = "sleep"
    /\ Len(sent_samples) > 0
    /\ GetSent(monthly_traffic_state) > 0
    /\ \E r \in Readers : reply[r].kind = "monthly" /\ reply[r].sent > 0

\* the positions of the sampling loop once the baseline has been read
RunningPcs == {"sleep", "read", "acquire", "advance"} \cup CriticalPcs

\* C16: once the baseline has been read the sampling loop stays in its loop:
\* every step of a running process (a failed read, a clock anomaly and an
\* update that raises included) leaves it at one of the loop's positions,
\* every tick ends back in the sleep, and, under fair scheduling, every read
\* that succeeds with time_delta > 0 is followed by a new sample in each
\* window.
C16_RunningIsForever ==
    /\ [][(mon_pc \in RunningPcs /\ app_pc' = "serving") => mon_pc' \in RunningPcs]_vars
    /\ [](tick.outcome \in {"read_failed", "clock_anomaly", "update_failed", "recorded"}
             => mon_pc = "sleep")
    /\ \A n \in 0..ServingTicks :
          (mon_pc = "acquire" /\ Len(recorded_recv) = n)
              ~> (Len(recorded_sent) = n + 1 /\ Len(recorded_recv) = n + 1)

\* a tick whose update raised has appended its sample and the loop is back in
\* its sleep
C16_Witness ==
    /\ tick.outcome = "update_failed"
    /\ mon_pc = "sleep"
    /\ Len(recorded_recv) = 1
    /\ recv_samples # <<0>>

\* C17: a tick is all or nothing: between ticks every sample appended to a
\* window has had its byte deltas added to both monthly totals, and a tick
\* that appended a sample has moved last_bytes_sent, last_bytes_recv and
\* last_check_time to the values it read.
C17_TickIsAllOrNothing ==
    /\ ~InCriticalSection =>
          /\ accumulated.sent = Len(recorded_sent)
          /\ accumulated.recv = Len(recorded_recv)
    /\ TickSampled =>
          /\ last_bytes_sent = net_io.bytes_sent
          /\ last_bytes_recv = net_io.bytes_recv
          /\ last_check_time = current_time

\* C18: whenever the sampling loop is outside its with block, and so whenever
\* a request thread reads them, the two windows hold the same number of
\* samples.
C18_WindowsSameLength ==
    ~InCriticalSection => Len(sent_samples) = Len(recv_samples)

\* both windows are full after an eviction and hold different samples, one
\* of them left by a tick whose monthly update raised
C18_Witness ==
    /\ ~InCriticalSection
    /\ Len(recorded_recv) > MAX_SAMPLES
    /\ Len(sent_samples) = MAX_SAMPLES
    /\ Len(recv_samples) = MAX_SAMPLES
    /\ sent_samples # recv_samples
    /\ tick.outcome = "update_failed"

\* C19: within one process lifetime and one calendar month, with every
\* successful read at time_delta > 0, failed reads lose and double nothing:
\* after every tick total_bytes_sent - last_bytes_sent and
\* total_bytes_recv - last_bytes_recv are what they were before the tick, so
\* that each total stays at (the total loaded at startup) + (last reading -
\* baseline reading).
C19_TotalsFollowTheCounters ==
    (/\ tick.outcome \in {"read_failed", "recorded", "update_failed"}
     /\ GetMonth(monthly_traffic_state) = GetMonth(tick.before.monthly_traffic_state)) =>
        /\ GetSent(monthly_traffic_state) - last_bytes_sent
              = GetSent(tick.before.monthly_traffic_state) - tick.before.last_bytes_sent
        /\ GetRecv(monthly_traffic_state) - last_bytes_recv
              = GetRecv(tick.before.monthly_traffic_state) - tick.before.last_bytes_recv

\* C20: the save task takes its copy of the monthly state while the sampling
\* loop is between two ticks, the copy is not changed before it is written,
\* and every record the save task writes reads back as that copy: its month
\* and two totals are the ones the in-memory state held together at the copy.
C20_SavedRecordIsSnapshot ==
    [][/\ (save_pc = "copy" /\ save_pc' = "open") =>
             /\ mon_pc \in {"start", "sleep", "stopped"}
             /\ GLOBAL_LOCK = "save"
             /\ state_to_save' = monthly_traffic_state
       /\ (save_pc = "open" /\ save_pc' = "dump") =>
             /\ state_to_save' = state_to_save
             /\ mon_pc' = mon_pc
       /\ (save_pc = "dump" /\ file'.kind = "object") =>
             /\ JsonLoad(file'.text) = state_to_save
             /\ persisted' = [valid |-> TRUE, state |-> state_to_save]
             /\ state_to_save = monthly_traffic_state
             /\ mon_pc \in {"start", "sleep", "stopped"}]_vars

\* the file holds the record of a save made after a tick that rolled the
\* month over and added its bytes
C20_Witness ==
    /\ persisted.valid
    /\ restarts_left = MaxRestarts
    /\ file = FileObject(JsonDump(monthly_traffic_state))
    /\ tick.outcome = "recorded"
    /\ current_month # load_month
    /\ GetMonth(persisted.state) = current_month
    /\ GetSent(persisted.state) > 0
    /\ GetRecv(persisted.state) > 0

====
